---------------------------- MODULE Spec2Model ----------------------------
(***************************************************************************)
(* A model of the CDS Hooks tutorial service.                              *)
(*                                                                         *)
(* Two express applications live in the repository:                        *)
(*   "index"    src/index.js          body parser, CORS, authorization     *)
(*                                    gate, discovery, patient-view,       *)
(*                                    order-select                         *)
(*   "part_000" src/unnamed/part_000  body parser, CORS, discovery,        *)
(*                                    patient-view, medication-prescribe   *)
(*                                                                         *)
(* One request at a time travels through the middleware chain of the       *)
(* running application: bodyParser.json(), the CORS middleware, the        *)
(* authorization middleware (index only) and the route handler.            *)
(*                                                                         *)
(* JavaScript strings that the code inspects (the Authorization header) are*)
(* sequences of one-character strings, so that startsWith is computed.     *)
(* Template literals and string concatenations are the sequence of their   *)
(* pieces.  A JSON document is the record it denotes; a response body is   *)
(* <<>> (nothing written) or <<document>>.                                 *)
(***************************************************************************)
EXTENDS Naturals, Sequences, FiniteSets, TLC

VARIABLES
    app,                 \* which application is listening on port 3000
    pc,                  \* position of the current request in the chain
    received,            \* the request as the client sent it (never changed)
    request,             \* the express request object (body filled by the parser)
    response,            \* the express response object
    authorizationHeader, \* the gate's local const authorizationHeader
    gate,                \* outcome of the authorization middleware
    ran,                 \* the route handler that ran for this request
    cardCalled           \* createMedicationResponseCard was called

vars == <<app, pc, received, request, response, authorizationHeader, gate, ran, cardCalled>>

----------------------------------------------------------------------------
(* Bounds of the model *)

\* longest context.selections array a client sends
MaxSelections == 2

----------------------------------------------------------------------------
(* Strings the code inspects, as character sequences *)

Bearer == <<"B","e","a","r","e","r">>

BearerOpenTypo == <<"o","p","e","n">>

\* src/index.js:36   ... || 'Bearer open'
BearerOpen == <<"B","e","a","r","e","r"," ","o","p","e","n">>

\* String.prototype.startsWith
StartsWith(s, p) == Len(s) >= Len(p) /\ SubSeq(s, 1, Len(p)) = p

\* Authorization header values a client may send
AuthorizationValues ==
    { << >>,                                        \* "Authorization:" with an empty value
      <<"B","e","a","r","e","r"," ","t","1">>,      \* Bearer t1
      <<"B","e","a","r","e","r">>,                  \* Bearer
      <<"b","e","a","r","e","r"," ","t","1">>,      \* bearer t1
      <<"B","a","s","i","c"," ","d","T","p","w">> } \* Basic dTpw

Hosts == {"localhost:3000", "cds.example.org"}

Methods == {"GET", "POST", "OPTIONS"}

DiscoveryPath == "/cds-services"
PatientViewPath == "/cds-services/patient-view-example"
OrderSelectPath == "/cds-services/order-select-example"
MedicationPrescribePath == "/cds-services/medication-prescribe-example"

Paths == {DiscoveryPath, PatientViewPath, OrderSelectPath, MedicationPrescribePath, "/"}

----------------------------------------------------------------------------
(* Payloads.  The bodies are HookRequests of the shape the handler of the   *)
(* route reads: every field a handler dereferences without a test is       *)
(* present, and the fields it tests (resourceType, selections,             *)
(* medicationCodeableConcept) vary.                                        *)

\* medicationCodeableConcept values a client may send
ClientConcepts ==
    { [text |-> "Aspirin 81 MG Oral Tablet",
       coding |-> << [display |-> "Aspirin 81 MG Oral Tablet",
                      system |-> "http://www.nlm.nih.gov/research/umls/rxnorm",
                      code |-> "243670"] >>],
      [text |-> "ASA 81 MG",
       coding |-> << [display |-> "ASA 81 MG",
                      system |-> "http://www.nlm.nih.gov/research/umls/rxnorm",
                      code |-> "243670"] >>],
      [text |-> "Acetaminophen 325 MG Oral Tablet",
       coding |-> << [display |-> "Acetaminophen 325 MG Oral Tablet",
                      system |-> "http://www.nlm.nih.gov/research/umls/rxnorm",
                      code |-> "999999"] >>] }

ResourceTypes == {"MedicationRequest", "MedicationOrder", "Patient"}

\* draft resources, with and without a medicationCodeableConcept
DraftResources ==
    { [resourceType |-> t, id |-> "1"] : t \in ResourceTypes }
    \cup
    { [resourceType |-> t, id |-> "1", medicationCodeableConcept |-> c] :
          t \in ResourceTypes, c \in ClientConcepts }

\* `${resourceType}/${id}`: the pieces of the template literal
Reference(resourceType, id) == <<resourceType, "/", id>>

SelectionRefs ==
    { Reference("MedicationRequest", "1"),
      Reference("MedicationOrder", "1"),
      Reference("MedicationRequest", "2") }

SelectionLists == UNION { [1..n -> SelectionRefs] : n \in 0..MaxSelections }

\* Array.prototype.includes
Includes(array, x) == \E i \in 1..Len(array) : array[i] = x

\* HookRequest of the order-select hook (src/index.js:138-139)
OrderSelectBodies ==
    { [context |-> [draftOrders |-> [entry |-> << [resource |-> r] >>],
                    selections |-> s]] :
          r \in DraftResources, s \in SelectionLists }

\* HookRequest of the medication-prescribe hook (src/unnamed/part_000:101)
MedicationPrescribeBodies == { [context |-> << r >>] : r \in DraftResources }

\* HookRequest of the patient-view hook (src/index.js:102)
PatientViewBodies ==
    { [prefetch |-> [requestedPatient |-> [resource |->
          [resourceType |-> "Patient",
           name |-> << [given |-> <<g>>, family |-> <<f>>] >>]]]] :
          g \in {"Ana", "Bo"}, f \in {"Lee"} }

\* what body-parser leaves in request.body when there is nothing to parse
EmptyObject == [empty |-> TRUE]

\* the JSON documents a client may POST to `path` of application `a`
BodiesFor(a, method, path) ==
    IF method # "POST" THEN {EmptyObject}
    ELSE IF path = PatientViewPath THEN PatientViewBodies
    ELSE IF path = OrderSelectPath /\ a = "index" THEN OrderSelectBodies
    ELSE IF path = MedicationPrescribePath /\ a = "part_000" THEN MedicationPrescribeBodies
    ELSE {EmptyObject}

HeaderSets ==
    { [host |-> h] : h \in Hosts }
    \cup
    { [host |-> h, authorization |-> v] : h \in Hosts, v \in AuthorizationValues }

----------------------------------------------------------------------------
(* The response object *)

\* response.setHeader / response.set: one value per header name
SetHeader(headers, name, value) ==
    { p \in headers : p[1] # name } \cup { <<name, value>> }

FreshResponse == [statusCode |-> 200, headers |-> {}, body |-> << >>, finished |-> FALSE]

\* response.send(text): writes the body and ends the response
Send(res, document) == [res EXCEPT !.body = << document >>, !.finished = TRUE]

\* src/index.js:13-18
CorsHeaders ==
    { <<"Access-Control-Allow-Origin", <<"*">> >>,
      <<"Access-Control-Allow-Methods", <<"GET, POST, OPTIONS">> >>,
      <<"Access-Control-Allow-Credentials", <<"true">> >>,
      <<"Access-Control-Allow-Headers", <<"Content-Type, Authorization">> >>,
      <<"Access-Control-Expose-Headers",
        <<"Origin, Accept, Content-Location, ", "Location, X-Requested-With">> >> }

RECURSIVE SetAll(_, _)
SetAll(headers, toSet) ==
    IF toSet = {} THEN headers
    ELSE LET p == CHOOSE q \in toSet : TRUE
         IN  SetAll(SetHeader(headers, p[1], p[2]), toSet \ {p})

\* src/index.js:39  the WWW-Authenticate template literal
Challenge(serviceHost) ==
    << "Bearer realm=\"", serviceHost,
       "\", error=\"invalid_token\", error_description=\"No Bearer token provided.\"" >>

----------------------------------------------------------------------------
(* Initial state: an application is listening and no request has arrived *)

NoRequest == [method |-> "GET", path |-> "/", headers |-> [host |-> "localhost:3000"],
              body |-> EmptyObject, malformed |-> FALSE]

Init ==
    /\ app \in {"index", "part_000"}
    /\ pc = "idle"
    /\ received = NoRequest
    /\ request = NoRequest
    /\ response = FreshResponse
    /\ authorizationHeader = << >>
    /\ gate = "notRun"
    /\ ran = "none"
    /\ cardCalled = FALSE

\* src/index.js:219  app.listen(3000): a client sends a request; `malformed`
\* says that its body is not valid JSON.
Receive ==
    /\ pc = "idle"
    /\ \E method \in Methods, path \in Paths, headers \in HeaderSets, malformed \in BOOLEAN :
         \E body \in BodiesFor(app, method, path) :
            /\ received' = [method |-> method, path |-> path, headers |-> headers,
                            body |-> body, malformed |-> malformed]
            /\ request' = [method |-> method, path |-> path, headers |-> headers,
                           body |-> EmptyObject, malformed |-> malformed]
    /\ response' = FreshResponse
    /\ authorizationHeader' = << >>
    /\ gate' = "notRun"
    /\ ran' = "none"
    /\ cardCalled' = FALSE
    /\ pc' = "bodyParser"
    /\ UNCHANGED app


----------------------------------------------------------------------------
(* Middleware chain *)

\* src/index.js:6  app.use(bodyParser.json())
\* Valid JSON is parsed into request.body and the chain continues.  Text that
\* is not JSON makes the parser call next(error): express skips every
\* middleware and route registered after it and its default error handler
\* answers 400.
BodyParser ==
    /\ pc = "bodyParser"
    /\ IF request.malformed
       THEN /\ response' = [response EXCEPT !.statusCode = 400,
                                           !.body = << [error |-> "entity.parse.failed"] >>,
                                           !.finished = TRUE]
            /\ pc' = "done"
            /\ UNCHANGED request
       ELSE /\ request' = [request EXCEPT !.body = received.body]
            /\ pc' = "cors"
            /\ UNCHANGED response
    /\ UNCHANGED <<app, received, authorizationHeader, gate, ran, cardCalled>>

\* src/index.js:12-22  the CORS middleware
Cors ==
    /\ pc = "cors"
    /\ response' = [response EXCEPT !.headers = SetAll(@, CorsHeaders)]
    /\ pc' = IF app = "index" THEN "authorization" ELSE "route"
    /\ UNCHANGED <<app, received, request, authorizationHeader, gate, ran, cardCalled>>

IsPreflightNever(method) == FALSE

\* src/index.js:30  request.method === 'OPTIONS'
IsPreflight(method) == method = "OPTIONS"

\* src/index.js:36  request.get('Authorization') || 'Bearer open'
\* (an absent header is undefined and an empty one is '': both are falsy)
AuthorizationOrDefault(headers) ==
    IF "authorization" \in DOMAIN headers /\ headers.authorization # << >>
    THEN headers.authorization
    ELSE BearerOpen

AcceptsAnyScheme(header) == FALSE

\* src/index.js:38  !authorizationHeader || !authorizationHeader.startsWith('Bearer')
IsRejected(header) == header = << >> \/ ~StartsWith(header, Bearer)

\* src/index.js:46  const isValid = true
isValid == TRUE

\* src/index.js:28-55  the authorization middleware
Authorization ==
    /\ pc = "authorization"
    /\ IF IsPreflight(request.method)
       THEN /\ gate' = "next"
            /\ pc' = "route"
            /\ UNCHANGED <<response, authorizationHeader>>
       ELSE LET serviceHost == request.headers.host
                header == AuthorizationOrDefault(request.headers)
            IN  /\ authorizationHeader' = header
                /\ IF IsRejected(header) \/ ~isValid
                   THEN /\ response' = [response EXCEPT
                               !.headers = SetHeader(@, "WWW-Authenticate", Challenge(serviceHost)),
                               !.statusCode = 401,
                               !.finished = TRUE]
                        /\ gate' = "rejected"
                        /\ pc' = "done"
                   ELSE /\ gate' = "next"
                        /\ pc' = "route"
                        /\ UNCHANGED response
    /\ UNCHANGED <<app, received, request, ran, cardCalled>>

----------------------------------------------------------------------------
(* Discovery *)

\* src/index.js:66-76
patientViewExample ==
    [hook |-> "patient-view",
     id |-> "patient-view-example",
     title |-> "Example patient-view CDS Service",
     description |-> "Displays the name and gender of the patient",
     prefetch |-> [requestedPatient |-> "Patient/{{context.patientId}}"]]

\* src/index.js:79-84
orderSelectExample ==
    [hook |-> "order-select",
     id |-> "order-select-example",
     title |-> "Example order-select CDS Service",
     description |-> "Suggests prescribing Aspirin 81 MG Oral Tablets"]

\* src/unnamed/part_000:33-43
patientViewExamplePrescribe ==
    [hook |-> "patient-view",
     id |-> "patient-view-example",
     title |-> "Example patient-view CDS Service",
     description |-> "Displays the name and gender of the patient",
     prefetch |-> [requestedPatient |-> "Patient/{{Patient.id}}"]]

\* src/unnamed/part_000:46-51
medicationPrescribeExample ==
    [hook |-> "medication-prescribe",
     id |-> "medication-prescribe-example",
     title |-> "Example medication-prescribe CDS Service",
     description |-> "Suggests prescribing Aspirin 81 MG Oral Tablets"]

\* src/index.js:86-88, src/unnamed/part_000:53-55
discoveryEndpointServices(a) ==
    IF a = "index"
    THEN [services |-> << patientViewExample, orderSelectExample >>]
    ELSE [services |-> << patientViewExamplePrescribe, medicationPrescribeExample >>]

\* app.get('/cds-services', ...)
Discovery ==
    /\ pc = "route"
    /\ request.method = "GET"
    /\ request.path = DiscoveryPath
    /\ response' = Send(response, discoveryEndpointServices(app))
    /\ ran' = "discovery"
    /\ pc' = "done"
    /\ UNCHANGED <<app, received, request, authorizationHeader, gate, cardCalled>>

----------------------------------------------------------------------------
(* Patient view *)

\* src/index.js:103-122, src/unnamed/part_000:70-85
patientViewCard(a, patientResource) ==
    LET summary == << "Now seeing: ", patientResource.name[1].given[1], " ",
                      patientResource.name[1].family[1] >>
        links == << [label |-> "Learn more about CDS Hooks",
                     url |-> "http://cds-hooks.org",
                     type |-> "absolute"] >>
    IN  IF a = "index"
        THEN [cards |-> << [summary |-> summary,
                            indicator |-> "info",
                            source |-> [label |-> "CDS Service Tutorial",
                                        url |-> "https://github.com/cerner/cds-services-tutorial/wiki/Patient-View-Service"],
                            links |-> links] >>]
        ELSE [cards |-> << [summary |-> summary,
                            indicator |-> "info",
                            links |-> links] >>]

\* app.post('/cds-services/patient-view-example', ...)
PatientView ==
    /\ pc = "route"
    /\ request.method = "POST"
    /\ request.path = PatientViewPath
    /\ LET patientResource == request.body.prefetch.requestedPatient.resource
       IN  response' = Send(response, patientViewCard(app, patientResource))
    /\ ran' = "patient-view"
    /\ pc' = "done"
    /\ UNCHANGED <<app, received, request, authorizationHeader, gate, cardCalled>>


----------------------------------------------------------------------------
(* Card generator *)

TargetCodeTypo == "243607"

\* src/index.js:159, src/unnamed/part_000:120  the code the order is compared with
TargetCode == "243670"

AspirinConceptWrongCode ==
    [text |-> "Aspirin 81 MG Oral Tablet",
     coding |-> << [display |-> "Aspirin 81 MG Oral Tablet",
                    system |-> "http://www.nlm.nih.gov/research/umls/rxnorm",
                    code |-> "198467"] >>]

\* src/index.js:180-189, src/unnamed/part_000:137-146
AspirinConcept ==
    [text |-> "Aspirin 81 MG Oral Tablet",
     coding |-> << [display |-> "Aspirin 81 MG Oral Tablet",
                    system |-> "http://www.nlm.nih.gov/research/umls/rxnorm",
                    code |-> "243670"] >>]

\* src/index.js:156  context.medicationCodeableConcept.coding[0].code
providerOrderedMedication(context) == context.medicationCodeableConcept.coding[1].code

\* src/index.js:179-189  let newMedicationRequest = context; then the assignment
\* to newMedicationRequest.medicationCodeableConcept.  newMedicationRequest
\* is the object `context` itself, not a copy of it.
newMedicationRequest(context) ==
    [context EXCEPT !.medicationCodeableConcept = AspirinConcept]

\* src/index.js:155-216  the value createMedicationResponseCard returns
createMedicationResponseCard(context) ==
    IF providerOrderedMedication(context) = TargetCode
    THEN [cards |-> << [summary |-> "Currently prescribing a low-dose Aspirin",
                        indicator |-> "info",
                        source |-> [label |-> "CDS Service Tutorial",
                                    url |-> "https://github.com/cerner/cds-services-tutorial/wiki/Order-Select-Service"]] >>]
    ELSE [cards |-> << [summary |-> "Reduce cardiovascular risks, prescribe daily 81 MG Aspirin",
                        indicator |-> "warning",
                        suggestions |-> << [label |-> "Switch to low-dose Aspirin",
                                            actions |-> << [type |-> "create",
                                                            description |-> "Modifying existing medication order to be Aspirin",
                                                            resource |-> newMedicationRequest(context)] >>] >>,
                        source |-> [label |-> "CDS Service Tutorial",
                                    url |-> "https://github.com/cerner/cds-services-tutorial/wiki/Order-Select-Service"]] >>]

\* src/unnamed/part_000:116-171  the value createMedicationResponseCard returns
createMedicationResponseCardPrescribe(context) ==
    IF providerOrderedMedication(context) = TargetCode
    THEN [cards |-> << [summary |-> "Currently prescribing a low-dose Aspirin",
                        indicator |-> "info"] >>]
    ELSE [cards |-> << [summary |-> "Reduce cardiovascular risks, prescribe daily 81 MG Aspirin",
                        indicator |-> "warning",
                        suggestions |-> << [label |-> "Switch to low-dose Aspirin",
                                            actions |-> << [type |-> "create",
                                                            resource |-> newMedicationRequest(context)] >>] >>,
                        source |-> [label |-> "Learn more about Suggestions",
                                    url |-> "http://cds-hooks.org/#cds-service-response"]] >>]

\* src/index.js:179-180, src/unnamed/part_000:136-137
\* the object passed as `context` once createMedicationResponseCard has returned
contextAfterCard(context) ==
    IF providerOrderedMedication(context) = TargetCode
    THEN context
    ELSE newMedicationRequest(context)

----------------------------------------------------------------------------
(* Order hooks *)

IsOrderSelectedIgnoringSelections(draftOrder, selections) ==
    /\ draftOrder.resourceType \in {"MedicationRequest", "MedicationOrder"}
    /\ "medicationCodeableConcept" \in DOMAIN draftOrder

\* src/index.js:142-143  the condition of the order-select handler
IsOrderSelected(draftOrder, selections) ==
    /\ draftOrder.resourceType \in {"MedicationRequest", "MedicationOrder"}
    /\ Includes(selections, Reference(draftOrder.resourceType, draftOrder.id))
    /\ "medicationCodeableConcept" \in DOMAIN draftOrder

\* src/index.js:135-148  app.post('/cds-services/order-select-example', ...)
\* response.status(200) only sets the status code: when the condition fails
\* nothing ends the response.
OrderSelect ==
    /\ pc = "route"
    /\ app = "index"
    /\ request.method = "POST"
    /\ request.path = OrderSelectPath
    /\ LET draftOrder == request.body.context.draftOrders.entry[1].resource
           selections == request.body.context.selections
       IN  IF IsOrderSelected(draftOrder, selections)
           THEN /\ cardCalled' = TRUE
                /\ request' = [request EXCEPT
                       !.body.context.draftOrders.entry[1].resource = contextAfterCard(draftOrder)]
                /\ response' = [Send(response, createMedicationResponseCard(draftOrder))
                                   EXCEPT !.statusCode = 200]
           ELSE /\ response' = [response EXCEPT !.statusCode = 200]
                /\ UNCHANGED <<request, cardCalled>>
    /\ ran' = "order-select"
    /\ pc' = "done"
    /\ UNCHANGED <<app, received, authorizationHeader, gate>>

\* src/unnamed/part_000:98-109  app.post('/cds-services/medication-prescribe-example', ...)
MedicationPrescribe ==
    /\ pc = "route"
    /\ app = "part_000"
    /\ request.method = "POST"
    /\ request.path = MedicationPrescribePath
    /\ LET context == request.body.context[1]
       IN  IF "medicationCodeableConcept" \in DOMAIN context
           THEN /\ cardCalled' = TRUE
                /\ request' = [request EXCEPT !.body.context[1] = contextAfterCard(context)]
                /\ response' = [Send(response, createMedicationResponseCardPrescribe(context))
                                   EXCEPT !.statusCode = 200]
           ELSE /\ response' = [response EXCEPT !.statusCode = 200]
                /\ UNCHANGED <<request, cardCalled>>
    /\ ran' = "medication-prescribe"
    /\ pc' = "done"
    /\ UNCHANGED <<app, received, authorizationHeader, gate>>

----------------------------------------------------------------------------
(* Requests no registered route answers *)

\* the routes each application registers
Routes(a) ==
    IF a = "index"
    THEN { <<"GET", DiscoveryPath>>, <<"POST", PatientViewPath>>, <<"POST", OrderSelectPath>> }
    ELSE { <<"GET", DiscoveryPath>>, <<"POST", PatientViewPath>>, <<"POST", MedicationPrescribePath>> }

\* the methods express lists for a routed path (a GET route also answers HEAD)
AllowedMethods(a, path) ==
    IF <<"GET", path>> \in Routes(a) THEN << "GET,HEAD" >>
    ELSE IF <<"POST", path>> \in Routes(a) THEN << "POST" >>
    ELSE << >>

\* No route of the application matches method and path: express answers an
\* OPTIONS request to a routed path with 200, an Allow header and the same
\* list as body, and every other request with 404.
NoRoute ==
    /\ pc = "route"
    /\ <<request.method, request.path>> \notin Routes(app)
    /\ LET allowed == AllowedMethods(app, request.path)
       IN  IF request.method = "OPTIONS" /\ allowed # << >>
           THEN response' = [Send(response, [text |-> allowed])
                                EXCEPT !.headers = SetHeader(@, "Allow", allowed)]
           ELSE response' = [Send(response, [error |-> "Not Found"])
                                EXCEPT !.statusCode = 404]
    /\ pc' = "done"
    /\ UNCHANGED <<app, received, request, authorizationHeader, gate, ran, cardCalled>>

\* src/index.js:219  app.listen(3000): the connection of the current request
\* closes (the client has read the response, or has given up waiting for one)
\* and the server waits for the next request.  Nothing of the request is kept.
Close ==
    /\ pc = "done"
    /\ pc' = "idle"
    /\ received' = NoRequest
    /\ request' = NoRequest
    /\ response' = FreshResponse
    /\ authorizationHeader' = << >>
    /\ gate' = "notRun"
    /\ ran' = "none"
    /\ cardCalled' = FALSE
    /\ UNCHANGED app

----------------------------------------------------------------------------

Next ==
    \/ Receive
    \/ Close
    \/ BodyParser
    \/ Cors
    \/ Authorization
    \/ Discovery
    \/ PatientView
    \/ OrderSelect
    \/ MedicationPrescribe
    \/ NoRoute

Spec == Init /\ [][Next]_vars


----------------------------------------------------------------------------
(* Properties.  They are stated on `received`, the request as the client   *)
(* sent it, and on what the chain has done with it.                        *)

AuthorizationPresent == "authorization" \in DOMAIN received.headers

\* the draft order of the request that was sent
ReceivedDraftOrder ==
    IF app = "index"
    THEN received.body.context.draftOrders.entry[1].resource
    ELSE received.body.context[1]

\* the same draft order as the request object holds it now
RequestDraftOrder ==
    IF app = "index"
    THEN request.body.context.draftOrders.entry[1].resource
    ELSE request.body.context[1]

OrderHandlerDone == pc = "done" /\ ran \in {"order-select", "medication-prescribe"}

\* the input contract of the order hooks, on the request that was sent
ContractSatisfied ==
    /\ "medicationCodeableConcept" \in DOMAIN ReceivedDraftOrder
    /\ app = "index" =>
          /\ ReceivedDraftOrder.resourceType \in {"MedicationRequest", "MedicationOrder"}
          /\ \E i \in 1..Len(received.body.context.selections) :
                received.body.context.selections[i]
                    = <<ReceivedDraftOrder.resourceType, "/", ReceivedDraftOrder.id>>

ReceivedCode == ReceivedDraftOrder.medicationCodeableConcept.coding[1].code

\* the gate has rejected the current request as the specification describes
RejectedWith401 ==
    /\ pc = "done"
    /\ gate = "rejected"
    /\ response.finished
    /\ response.statusCode = 401
    /\ response.body = << >>
    /\ \E p \in response.headers :
          /\ p[1] = "WWW-Authenticate"
          /\ p[2] = << "Bearer realm=\"", received.headers.host,
                       "\", error=\"invalid_token\", error_description=\"No Bearer token provided.\"" >>
    /\ ran = "none"

\* C1 as stated: every non-OPTIONS request that reaches the gate with an
\* Authorization header that is present and does not start with 'Bearer' is
\* ended by the gate with 401, an empty body and the invalid_token challenge
\* naming the request host, and no route handler runs.
C1_PresentNonBearerRejected ==
    ( /\ gate # "notRun"
      /\ received.method # "OPTIONS"
      /\ AuthorizationPresent
      /\ ~StartsWith(received.headers.authorization, Bearer) )
    => RejectedWith401

\* C1 amended: the same, for a header that is present with a non-empty value.
C1_NonEmptyNonBearerRejected ==
    ( /\ gate # "notRun"
      /\ received.method # "OPTIONS"
      /\ AuthorizationPresent
      /\ received.headers.authorization # << >>
      /\ ~StartsWith(received.headers.authorization, Bearer) )
    => RejectedWith401

C1_Witness ==
    /\ gate = "rejected"
    /\ received.method = "POST"
    /\ received.path = OrderSelectPath
    /\ AuthorizationPresent
    /\ received.headers.authorization = <<"B","a","s","i","c"," ","d","T","p","w">>
    /\ response.statusCode = 401

\* C2: an OPTIONS request is never answered 401 and never rejected by the
\* gate, whatever its Authorization header; once it is past the gate, the
\* gate has called the next layer.
C2_OptionsAlwaysPasses ==
    received.method = "OPTIONS" =>
        /\ gate # "rejected"
        /\ response.statusCode # 401
        /\ (app = "index" /\ pc \in {"route", "done"} /\ ~received.malformed) => gate = "next"
        /\ (app = "index" /\ pc = "done" /\ ~received.malformed) =>
               response.finished /\ response.statusCode \in {200, 404}

C2_Witness ==
    /\ received.method = "OPTIONS"
    /\ AuthorizationPresent
    /\ received.headers.authorization = <<"B","a","s","i","c"," ","d","T","p","w">>
    /\ gate = "next"
    /\ pc = "done"

\* C3: a non-OPTIONS request without an Authorization header is never
\* answered 401; the gate uses the credential 'Bearer open' for it and calls
\* the next layer.
C3_MissingHeaderDefaults ==
    (received.method # "OPTIONS" /\ ~AuthorizationPresent) =>
        /\ gate # "rejected"
        /\ response.statusCode # 401
        /\ gate # "notRun" =>
              /\ authorizationHeader = <<"B","e","a","r","e","r"," ","o","p","e","n">>
              /\ gate = "next"
              /\ pc \in {"route", "done"}

C3_Witness ==
    /\ received.method = "GET"
    /\ received.path = DiscoveryPath
    /\ ~AuthorizationPresent
    /\ gate = "next"
    /\ ran = "discovery"
    /\ response.finished

C5_HookPostAnswered ==
    ( /\ pc = "done"
      /\ received.method = "POST"
      /\ ran \in {"patient-view", "order-select", "medication-prescribe"} )
    => (response.finished /\ response.statusCode = 200)

\* C6: a draft order that satisfies the input contract and whose code is not
\* '243670' gets exactly one card, a warning, with exactly one suggestion of
\* exactly one 'create' action whose resource has code '243670'.
C6_NonMatchingCodeWarning ==
    (OrderHandlerDone /\ ContractSatisfied /\ ReceivedCode # "243670") =>
        /\ response.finished
        /\ Len(response.body) = 1
        /\ "cards" \in DOMAIN response.body[1]
        /\ LET cards == response.body[1].cards
           IN  /\ Len(cards) = 1
               /\ cards[1].indicator = "warning"
               /\ "suggestions" \in DOMAIN cards[1]
               /\ Len(cards[1].suggestions) = 1
               /\ Len(cards[1].suggestions[1].actions) = 1
               /\ cards[1].suggestions[1].actions[1].type = "create"
               /\ cards[1].suggestions[1].actions[1].resource
                      .medicationCodeableConcept.coding[1].code = "243670"

C6_Witness ==
    /\ OrderHandlerDone
    /\ ran = "order-select"
    /\ ContractSatisfied
    /\ ReceivedCode = "999999"
    /\ response.finished
    /\ response.body[1].cards[1].indicator = "warning"

\* C7: a draft order that satisfies the input contract and whose code is
\* '243670' gets exactly one card, with indicator 'info', the summary
\* 'Currently prescribing a low-dose Aspirin' and no suggestions.
C7_MatchingCodeInfo ==
    (OrderHandlerDone /\ ContractSatisfied /\ ReceivedCode = "243670") =>
        /\ response.finished
        /\ Len(response.body) = 1
        /\ "cards" \in DOMAIN response.body[1]
        /\ LET cards == response.body[1].cards
           IN  /\ Len(cards) = 1
               /\ cards[1].indicator = "info"
               /\ cards[1].summary = "Currently prescribing a low-dose Aspirin"
               /\ "suggestions" \notin DOMAIN cards[1]

C7_Witness ==
    /\ OrderHandlerDone
    /\ ContractSatisfied
    /\ ReceivedCode = "243670"
    /\ ReceivedDraftOrder.medicationCodeableConcept.text = "ASA 81 MG"
    /\ response.finished
    /\ response.body[1].cards[1].indicator = "info"

\* C8 as stated: in the non-matching branch the suggested resource equals
\* the draft order except for medicationCodeableConcept, which is the Aspirin
\* concept, and the draft order of the request still carries the
\* medicationCodeableConcept it was sent with.
C8_DraftOrderUntouched ==
    (OrderHandlerDone /\ cardCalled /\ ReceivedCode # "243670") =>
        /\ response.body[1].cards[1].suggestions[1].actions[1].resource
              = [ReceivedDraftOrder EXCEPT !.medicationCodeableConcept =
                    [text |-> "Aspirin 81 MG Oral Tablet",
                     coding |-> << [display |-> "Aspirin 81 MG Oral Tablet",
                                    system |-> "http://www.nlm.nih.gov/research/umls/rxnorm",
                                    code |-> "243670"] >>]]
        /\ RequestDraftOrder.medicationCodeableConcept
              = ReceivedDraftOrder.medicationCodeableConcept

\* C10: the order-select handler calls createMedicationResponseCard and
\* sends a card response exactly when the first draftOrders entry is a
\* MedicationRequest or MedicationOrder, '<resourceType>/<id>' is in
\* context.selections, and it carries a medicationCodeableConcept.
C10_CardIffThreeConditions ==
    (pc = "done" /\ ran = "order-select") =>
        LET draftOrder == received.body.context.draftOrders.entry[1].resource
            selections == received.body.context.selections
            all == /\ draftOrder.resourceType \in {"MedicationRequest", "MedicationOrder"}
                   /\ \E i \in 1..Len(selections) :
                         selections[i] = <<draftOrder.resourceType, "/", draftOrder.id>>
                   /\ "medicationCodeableConcept" \in DOMAIN draftOrder
        IN  /\ cardCalled <=> all
            /\ (response.finished /\ response.body # << >>) <=> all
            /\ all => "cards" \in DOMAIN response.body[1]

C10_Witness ==
    /\ pc = "done"
    /\ ran = "order-select"
    /\ ReceivedDraftOrder.resourceType = "MedicationRequest"
    /\ "medicationCodeableConcept" \in DOMAIN ReceivedDraftOrder
    /\ Len(received.body.context.selections) = 2
    /\ received.body.context.selections[1] = <<"MedicationOrder", "/", "1">>
    /\ received.body.context.selections[2] = <<"MedicationRequest", "/", "2">>
    /\ ~cardCalled
    /\ ~response.finished

============================================================================
